---- MODULE Spec2Model ----
(***************************************************************************)
(* Model of src/main.rs: a command-line tool that decodes an RGB raster,   *)
(* applies exactly one of three pixel transforms (seuil = luminance        *)
(* threshold, palette = nearest colour among the first n_couleurs registry *)
(* colours, dithering = Floyd-Steinberg error diffusion) and saves it.     *)
(* Every loop iteration of a transform is one step of the state machine.   *)
(***************************************************************************)
EXTENDS Integers, Sequences, FiniteSets, TLC

(* ---------------------------------------------------------------------- *)
(* Bounds of the model                                                     *)
(* ---------------------------------------------------------------------- *)
MaxW == 3
MaxH == 2
MaxN == 10

(* ---------------------------------------------------------------------- *)
(* Colours: a pixel is <<red, green, blue>>, each channel a u8             *)
(* ---------------------------------------------------------------------- *)
WHITE == <<255, 255, 255>>
GREY == <<127, 127, 127>>
BLACK == <<0, 0, 0>>
BLUE == <<0, 0, 255>>
RED == <<255, 0, 0>>
GREEN == <<0, 255, 0>>
YELLOW == <<255, 255, 0>>
MAGENTA == <<255, 0, 255>>
CYAN == <<0, 255, 255>>

U8 == 0..255
Pixel == U8 \X U8 \X U8
Channels == 1..3

(* The vec! of modify_image_palette, in its declared order. *)
Registry == <<BLACK, GREY, WHITE, RED, GREEN, BLUE, YELLOW, CYAN, MAGENTA>>

(* ---------------------------------------------------------------------- *)
(* Rasters (RgbImage): width, height and a dense map of coordinates        *)
(* ---------------------------------------------------------------------- *)
Coords(w, h) == (0..(w - 1)) \X (0..(h - 1))

EmptyRaster == [width |-> 0, height |-> 0, px |-> [c \in Coords(0, 0) |-> BLACK]]

DimensionsSwapped(r) == <<r.height, r.width>>

(* img.dimensions() *)
Dimensions(r) == <<r.width, r.height>>

(* The bounds check of get_pixel / put_pixel / get_pixel_mut. *)
InBounds(r, c) == c[1] >= 0 /\ c[1] < r.width /\ c[2] >= 0 /\ c[2] < r.height

GetPixel(r, c) == r.px[c]

PutPixel(r, c, p) == [r EXCEPT !.px[c] = p]

(* ---------------------------------------------------------------------- *)
(* Loop orders                                                             *)
(* ---------------------------------------------------------------------- *)
(* for x in 0..width { for y in 0..height { ... } } *)
ScanColMajor(w, h) == [i \in 1..(w * h) |-> <<(i - 1) \div h, (i - 1) % h>>]

ColumnFirstScan(w, h) == [i \in 1..(w * h) |-> <<(i - 1) \div h, (i - 1) % h>>]

(* for y in 0..height { for x in 0..width { ... } } *)
ScanRowMajor(w, h) == [i \in 1..(w * h) |-> <<(i - 1) % w, (i - 1) \div w>>]

(* ---------------------------------------------------------------------- *)
(* Threshold (seuil)                                                       *)
(* ---------------------------------------------------------------------- *)
(* pixel.to_luma() on Rgb<u8>: the integer sRGB luma weighting of the      *)
(* image library, (2126 r + 7152 g + 722 b) / 10000.                       *)
Luma(p) == (2126 * p[1] + 7152 * p[2] + 722 * p[3]) \div 10000

SeuilPixelInverted(p) == IF Luma(p) > 127 THEN BLACK ELSE WHITE

SeuilPixelAtLeast(p) == IF Luma(p) >= 127 THEN WHITE ELSE BLACK

(* if luminosite_[0] > 127 { WHITE } else { BLACK } *)
SeuilPixel(p) == IF Luma(p) > 127 THEN WHITE ELSE BLACK

(* One iteration of the loop body of modify_image_seuil. *)
SeuilAt(r, c) == PutPixel(r, c, SeuilPixel(GetPixel(r, c)))

RECURSIVE SeuilFrom(_, _, _)
SeuilFrom(r, order, k) ==
    IF k > Len(order) THEN r ELSE SeuilFrom(SeuilAt(r, order[k]), order, k + 1)

(* modify_image_seuil as a function of its argument. *)
modify_image_seuil(r) ==
    SeuilFrom(r, ScanColMajor(Dimensions(r)[1], Dimensions(r)[2]), 1)

(* ---------------------------------------------------------------------- *)
(* Palette                                                                 *)
(* ---------------------------------------------------------------------- *)
Min(a, b) == IF a < b THEN a ELSE b

(* n_couleurs.min(palette.len()); palette.drain(0..n_couleurs).collect() *)
ActivePalette(n) == SubSeq(Registry, 1, Min(n, Len(Registry)))

(* The sum of the squared channel differences (exact in f64). *)
Distance(color, pixel) ==
      (color[1] - pixel[1]) * (color[1] - pixel[1])
    + (color[2] - pixel[2]) * (color[2] - pixel[2])
    + (color[3] - pixel[3]) * (color[3] - pixel[3])

(* best_distance = f64::INFINITY; best_color = BLACK *)
InitialBest == [inf |-> TRUE, distance |-> 0, color |-> BLACK]

CloserOrEqual(distance, best) == best.inf \/ distance <= best.distance

(* if distance < best_distance *)
Closer(distance, best) == best.inf \/ distance < best.distance

(* for color in palette.iter() { ... } *)
RECURSIVE SearchPalette(_, _, _)
SearchPalette(pal, pixel, best) ==
    IF pal = <<>> THEN best
    ELSE LET distance == Distance(Head(pal), pixel)
         IN  SearchPalette(Tail(pal), pixel,
                 IF Closer(distance, best)
                 THEN [inf |-> FALSE, distance |-> distance, color |-> Head(pal)]
                 ELSE best)

(* One iteration of the loop body of modify_image_palette. *)
PaletteAt(r, c, pal) ==
    PutPixel(r, c, SearchPalette(pal, GetPixel(r, c), InitialBest).color)

(* ---------------------------------------------------------------------- *)
(* Dithering                                                               *)
(* ---------------------------------------------------------------------- *)
(* avg_color = (r + g + b) / 3.0; if avg_color > 128.0 { WHITE } else { BLACK } *)
DitherColor(pixel) ==
    IF pixel[1] + pixel[2] + pixel[3] > 3 * 128 THEN WHITE ELSE BLACK

QuantErrorReversed(pixel, new_color) ==
    <<new_color[1] - pixel[1], new_color[2] - pixel[2], new_color[3] - pixel[3]>>

(* error = [pixel[i] as f64 - new_color[i] as f64] *)
QuantError(pixel, new_color) ==
    <<pixel[1] - new_color[1], pixel[2] - new_color[2], pixel[3] - new_color[3]>>

(* The integer part of num/den, rounded toward zero (den > 0). *)
Trunc(num, den) == IF num >= 0 THEN num \div den ELSE -((-num) \div den)

WrappingCast(num, den) == Trunc(num, den) % 256

(* (num/den) as u8: Rust's float-to-integer `as` truncates toward zero and *)
(* saturates at the bounds of the target type.                             *)
F64ToU8(num, den) ==
    LET t == Trunc(num, den)
    IN  IF t < 0 THEN 0 ELSE IF t > 255 THEN 255 ELSE t

(* neighbor[i] = (neighbor[i] as f64 + error[i] * weight / 16.0) as u8 *)
AddError(neighbor, error, weight) ==
    <<F64ToU8(16 * neighbor[1] + error[1] * weight, 16),
      F64ToU8(16 * neighbor[2] + error[2] * weight, 16),
      F64ToU8(16 * neighbor[3] + error[3] * weight, 16)>>

(* a - b on u32 coordinates. A negative value stands for the underflow:    *)
(* the subtraction panics in a debug build and wraps to 2^32 + (a - b) in  *)
(* a release build, which no raster width exceeds; InBounds rejects both.  *)
SubU32(a, b) == a - b

DiffusionTargetsNoLeftGuard(x, y, w, h) ==
       (IF x + 1 < w THEN << <<<<x + 1, y>>, 7>> >> ELSE <<>>)
    \o (IF y + 1 < h THEN << <<<<SubU32(x, 1), y + 1>>, 3>> >> ELSE <<>>)
    \o (IF y + 1 < h THEN << <<<<x, y + 1>>, 5>> >> ELSE <<>>)
    \o (IF x + 1 < w /\ y + 1 < h THEN << <<<<x + 1, y + 1>>, 1>> >> ELSE <<>>)

DiffusionTargetsSwappedWeights(x, y, w, h) ==
       (IF x + 1 < w THEN << <<<<x + 1, y>>, 7>> >> ELSE <<>>)
    \o (IF x > 0 /\ y + 1 < h THEN << <<<<SubU32(x, 1), y + 1>>, 5>> >> ELSE <<>>)
    \o (IF y + 1 < h THEN << <<<<x, y + 1>>, 3>> >> ELSE <<>>)
    \o (IF x + 1 < w /\ y + 1 < h THEN << <<<<x + 1, y + 1>>, 1>> >> ELSE <<>>)

(* The four guarded diffusion targets, in the order of the source, each    *)
(* <<coordinate, weight in sixteenths>>.                                   *)
DiffusionTargets(x, y, w, h) ==
       (IF x + 1 < w THEN << <<<<x + 1, y>>, 7>> >> ELSE <<>>)
    \o (IF x > 0 /\ y + 1 < h THEN << <<<<SubU32(x, 1), y + 1>>, 3>> >> ELSE <<>>)
    \o (IF y + 1 < h THEN << <<<<x, y + 1>>, 5>> >> ELSE <<>>)
    \o (IF x + 1 < w /\ y + 1 < h THEN << <<<<x + 1, y + 1>>, 1>> >> ELSE <<>>)

(* The successive get_pixel_mut updates of the neighbours. *)
RECURSIVE Diffuse(_, _, _)
Diffuse(r, targets, error) ==
    IF targets = <<>> THEN r
    ELSE LET c == Head(targets)[1]
             weight == Head(targets)[2]
         IN  Diffuse(PutPixel(r, c, AddError(GetPixel(r, c), error, weight)),
                     Tail(targets), error)

(* One iteration of the loop body of modify_image_dithering. *)
DitherAt(r, c, w, h) ==
    LET pixel == GetPixel(r, c)
        new_color == DitherColor(pixel)
        error == QuantError(pixel, new_color)
    IN  Diffuse(PutPixel(r, c, new_color), DiffusionTargets(c[1], c[2], w, h), error)

(* Every coordinate the iteration at c hands to the raster accessors. *)
DitherAccesses(c, w, h) ==
    {c} \cup {DiffusionTargets(c[1], c[2], w, h)[j][1] :
                 j \in 1..Len(DiffusionTargets(c[1], c[2], w, h))}

(* ---------------------------------------------------------------------- *)
(* The program: main                                                       *)
(* ---------------------------------------------------------------------- *)
VARIABLES
    file,        \* the raster encoded in the input file
    readable,    \* whether image::open succeeds on the input path
    mode,        \* args.mode: "seuil", "palette" or "dithering"
    n_couleurs,  \* opts.n_couleurs (0 outside the palette mode)
    pc,          \* position of main
    img,         \* the raster owned by the running transform
    width,       \* the transform's local width
    height,      \* the transform's local height
    palette,     \* the transform's local palette (palette mode)
    i,           \* 1-based index of the next loop iteration
    result,      \* "none", or "ok" once the transform returned Ok(img)
    output,      \* the raster written to the output path
    saved,       \* whether image.save succeeded
    visited,     \* history: coordinates whose iteration has run
    accessed,    \* history: coordinates the last iteration handed to the raster
    last,        \* history: coordinate of the last iteration
    prev         \* history: the raster as the last iteration found it

vars == <<file, readable, mode, n_couleurs, pc, img, width, height, palette, i,
          result, output, saved, visited, accessed, last, prev>>

Modes == {"seuil", "palette", "dithering"}

(* Input pixels: the extremes, mid-grey (luma exactly 127), the grey whose  *)
(* channel average is exactly 128, the midpoint between grey and white,    *)
(* and three saturated colours.                                            *)
MidGreyWhite == <<191, 191, 191>>
Grey128 == <<128, 128, 128>>
InputPixels == {BLACK, WHITE, GREY, Grey128, MidGreyWhite, YELLOW, GREEN, BLUE}

(* A w x h raster tiled diagonally with the three pixels of pat. *)
PatternRaster(w, h, pat) ==
    [width |-> w, height |-> h,
     px |-> [c \in Coords(w, h) |-> pat[((c[1] + 2 * c[2]) % Len(pat)) + 1]]]

InputRasters ==
    {PatternRaster(w, h, <<a, b, c>>) :
        w \in 0..MaxW, h \in 0..MaxH, a \in InputPixels, b \in InputPixels,
        c \in InputPixels}

Init ==
    /\ \/ readable = TRUE /\ file \in InputRasters
       \/ readable = FALSE /\ file = EmptyRaster
    /\ mode \in Modes
    /\ n_couleurs \in (IF mode = "palette" THEN 0..MaxN ELSE {0})
    /\ pc = "start"
    /\ img = EmptyRaster
    /\ width = 0
    /\ height = 0
    /\ palette = <<>>
    /\ i = 1
    /\ result = "none"
    /\ output = EmptyRaster
    /\ saved = FALSE
    /\ visited = {}
    /\ accessed = {}
    /\ last = <<0, 0>>
    /\ prev = EmptyRaster

(* let img = get_image(path_in)?;  -- the decode succeeds *)
GetImage ==
    /\ pc = "start" /\ readable
    /\ img' = file
    /\ pc' = "match"
    /\ UNCHANGED <<file, readable, mode, n_couleurs, width, height, palette, i,
                   result, output, saved, visited, accessed, last, prev>>

(* let img = get_image(path_in)?;  -- the decode fails, main returns Err *)
GetImageErr ==
    /\ pc = "start" /\ ~readable
    /\ pc' = "failed"
    /\ UNCHANGED <<file, readable, mode, n_couleurs, img, width, height, palette,
                   i, result, output, saved, visited, accessed, last, prev>>

(* Entry of the selected transform: its locals before the loops. *)
EnterTransform ==
    /\ pc = "match"
    /\ pc' = mode
    /\ width' = Dimensions(img)[1]
    /\ height' = Dimensions(img)[2]
    /\ palette' = IF mode = "palette" THEN ActivePalette(n_couleurs) ELSE <<>>
    /\ i' = 1
    /\ UNCHANGED <<file, readable, mode, n_couleurs, img, result, output, saved,
                   visited, accessed, last, prev>>

(* One iteration of the loops of modify_image_seuil. *)
SeuilStep ==
    /\ pc = "seuil" /\ i <= width * height
    /\ LET c == ScanColMajor(width, height)[i]
       IN  /\ accessed' = {c}
           /\ visited' = visited \cup {c}
           /\ last' = c
           /\ prev' = img
           /\ IF InBounds(img, c)
              THEN img' = SeuilAt(img, c) /\ i' = i + 1 /\ pc' = pc
              ELSE img' = img /\ i' = i /\ pc' = "panic"
    /\ UNCHANGED <<file, readable, mode, n_couleurs, width, height, palette,
                   result, output, saved>>

(* One iteration of the loops of modify_image_palette. *)
PaletteStep ==
    /\ pc = "palette" /\ i <= width * height
    /\ LET c == ScanColMajor(width, height)[i]
       IN  /\ accessed' = {c}
           /\ visited' = visited \cup {c}
           /\ last' = c
           /\ prev' = img
           /\ IF InBounds(img, c)
              THEN img' = PaletteAt(img, c, palette) /\ i' = i + 1 /\ pc' = pc
              ELSE img' = img /\ i' = i /\ pc' = "panic"
    /\ UNCHANGED <<file, readable, mode, n_couleurs, width, height, palette,
                   result, output, saved>>

(* One iteration of the loops of modify_image_dithering. *)
DitherStep ==
    /\ pc = "dithering" /\ i <= width * height
    /\ LET c == ScanRowMajor(width, height)[i]
       IN  /\ accessed' = DitherAccesses(c, width, height)
           /\ visited' = visited \cup {c}
           /\ last' = c
           /\ prev' = img
           /\ IF \A a \in DitherAccesses(c, width, height) : InBounds(img, a)
              THEN img' = DitherAt(img, c, width, height) /\ i' = i + 1 /\ pc' = pc
              ELSE img' = img /\ i' = i /\ pc' = "panic"
    /\ UNCHANGED <<file, readable, mode, n_couleurs, width, height, palette,
                   result, output, saved>>

(* The loops are exhausted: the transform returns Ok(img). *)
TransformReturn ==
    /\ pc \in Modes /\ i > width * height
    /\ result' = "ok"
    /\ pc' = "save"
    /\ UNCHANGED <<file, readable, mode, n_couleurs, img, width, height, palette,
                   i, output, saved, visited, accessed, last, prev>>

(* image.save(path_out)?;  -- the encode succeeds, main returns Ok(()) *)
Save ==
    /\ pc = "save"
    /\ output' = img
    /\ saved' = TRUE
    /\ pc' = "done"
    /\ UNCHANGED <<file, readable, mode, n_couleurs, img, width, height, palette,
                   i, result, visited, accessed, last, prev>>

(* image.save(path_out)?;  -- the encode fails, main returns Err *)
SaveErr ==
    /\ pc = "save"
    /\ pc' = "failed"
    /\ UNCHANGED <<file, readable, mode, n_couleurs, img, width, height, palette,
                   i, result, output, saved, visited, accessed, last,
                   prev>>

Next ==
    \/ GetImage
    \/ GetImageErr
    \/ EnterTransform
    \/ SeuilStep
    \/ PaletteStep
    \/ DitherStep
    \/ TransformReturn
    \/ Save
    \/ SaveErr

Spec == Init /\ [][Next]_vars

TypeOK ==
    /\ pc \in {"start", "match", "save", "done", "failed", "panic"} \cup Modes
    /\ img.width \in Nat /\ img.height \in Nat
    /\ \A c \in DOMAIN img.px : img.px[c] \in Pixel

(* ---------------------------------------------------------------------- *)
(* Properties                                                              *)
(* ---------------------------------------------------------------------- *)
FileCoords == Coords(file.width, file.height)

BlackOrWhite(p) == p = BLACK \/ p = WHITE

(* The transform of the given mode has returned Ok(img). *)
Returned(m) == mode = m /\ result = "ok"

(* An iteration of the dithering loop has run and is the latest step. *)
DitherStepped == mode = "dithering" /\ accessed # {} /\ pc # "panic"

(* C1: palette quantization with a colour count of 0 is rejected: the      *)
(* transform returns no Ok raster and main writes no output.               *)
C1_PaletteZeroRejected ==
    (mode = "palette" /\ n_couleurs = 0) => (result # "ok" /\ ~saved)

(* What the code does with a colour count of 0: an all-black raster.       *)
C1_PaletteZeroAllBlack ==
    (Returned("palette") /\ n_couleurs = 0) =>
        \A c \in FileCoords : img.px[c] = BLACK

C3_SeuilBlackWhite ==
    Returned("seuil") =>
        /\ \A c \in FileCoords :
              /\ BlackOrWhite(img.px[c])
              /\ img.px[c] = WHITE <=> Luma(file.px[c]) > 127
        /\ (\A c \in FileCoords : file.px[c] = WHITE) =>
              (\A c \in FileCoords : img.px[c] = WHITE)
        /\ (\A c \in FileCoords : file.px[c] = BLACK) =>
              (\A c \in FileCoords : img.px[c] = BLACK)

(* Witness of C3: a pixel of luminance exactly 127 mapped to black beside  *)
(* a brighter pixel mapped to white.                                       *)
C3_Witness ==
    /\ Returned("seuil")
    /\ \E c \in FileCoords : Luma(file.px[c]) = 127 /\ img.px[c] = BLACK
    /\ \E c \in FileCoords : file.px[c] # WHITE /\ img.px[c] = WHITE

(* C4: the threshold is idempotent: applied to its own output it returns   *)
(* that output pixel for pixel.                                            *)
C4_SeuilIdempotent ==
    Returned("seuil") =>
        /\ img = modify_image_seuil(file)
        /\ modify_image_seuil(img) = img

(* Witness of C4: a threshold output that differs from its input.          *)
C4_Witness ==
    /\ Returned("seuil")
    /\ file.width * file.height >= 2
    /\ img # file
    /\ \E c \in FileCoords : img.px[c] = BLACK
    /\ \E c \in FileCoords : img.px[c] = WHITE

UniformGrey(r) == \A c \in DOMAIN r.px : r.px[c] = GREY

(* C5: on a raster of at least two pixels, all mid-grey, dithering yields  *)
(* at least one black and one white pixel and the threshold only black.    *)
C5_GreyDithers ==
    (result = "ok" /\ UniformGrey(file) /\ file.width * file.height >= 2) =>
        /\ mode = "dithering" =>
              /\ \E c \in FileCoords : img.px[c] = BLACK
              /\ \E c \in FileCoords : img.px[c] = WHITE
        /\ mode = "seuil" => \A c \in FileCoords : img.px[c] = BLACK

(* Witness of C5: a dithered uniform grey raster with a full neighbourhood.*)
C5_Witness ==
    /\ Returned("dithering") /\ UniformGrey(file)
    /\ file.width >= 3 /\ file.height >= 2
    /\ \E c \in FileCoords : img.px[c] = BLACK
    /\ \E c \in FileCoords : img.px[c] = WHITE

(* The four diffusion neighbours of a step as <<dx, dy, weight>>.          *)
Neighbours == {<<1, 0, 7>>, <<-1, 1, 3>>, <<0, 1, 5>>, <<1, 1, 1>>}

Target(n) == <<last[1] + n[1], last[2] + n[2]>>

(* Sixteen times the exact sum "neighbour channel + error * weight / 16"   *)
(* of the latest step, for neighbour n and channel ch.                     *)
Sum16(n, ch) ==
    16 * prev.px[Target(n)][ch] + (prev.px[last][ch] - img.px[last][ch]) * n[3]

OutOfByte(s16) == s16 < 0 \/ s16 > 16 * 255

(* C6 as stated: a sum outside [0,255] is stored as its truncation modulo  *)
(* 256.                                                                    *)
C6_Wraps ==
    DitherStepped =>
        \A n \in Neighbours : Target(n) \in FileCoords =>
            \A ch \in Channels : OutOfByte(Sum16(n, ch)) =>
                img.px[Target(n)][ch] =
                    (IF Sum16(n, ch) < 0 THEN -((-Sum16(n, ch)) \div 16)
                                         ELSE Sum16(n, ch) \div 16) % 256

(* C6 as amended: a sum outside [0,255] is stored saturated, 0 below the   *)
(* range and 255 above it.                                                 *)
C6_Saturates ==
    DitherStepped =>
        \A n \in Neighbours : Target(n) \in FileCoords =>
            \A ch \in Channels : OutOfByte(Sum16(n, ch)) =>
                img.px[Target(n)][ch] = IF Sum16(n, ch) < 0 THEN 0 ELSE 255

(* Witness of C6: a step that pushes a channel of a neighbour to 256 or    *)
(* above, stored as 255.                                                   *)
C6_Witness ==
    /\ DitherStepped
    /\ \E n \in Neighbours, ch \in Channels :
          /\ Target(n) \in FileCoords
          /\ Sum16(n, ch) >= 16 * 256
          /\ img.px[Target(n)][ch] = 255

(* C7: every transform keeps the width and the height of its input and     *)
(* returns a raster with a pixel at every coordinate in bounds.            *)
C7_DimensionsKept ==
    /\ pc # "panic"
    /\ pc \in Modes \cup {"save", "done"} =>
          /\ img.width = file.width
          /\ img.height = file.height
          /\ DOMAIN img.px = FileCoords
          /\ \A c \in FileCoords : img.px[c] \in Pixel
    /\ saved =>
          /\ output.width = file.width
          /\ output.height = file.height
          /\ DOMAIN output.px = FileCoords

(* Witness of C7: a transformed raster that is not square.                 *)
C7_Witness ==
    /\ result = "ok" /\ saved
    /\ file.width > file.height /\ file.height >= 1
    /\ output # file

(* C8: the dithering sweep never leaves the raster: every coordinate a     *)
(* step hands to the raster is in bounds, x - 1 never underflows, exactly  *)
(* the neighbours in bounds are updated, and the sweep takes one step per     *)
(* pixel, at most width * height in all.                                   *)
C8_DitherInBounds ==
    mode = "dithering" =>
        /\ pc # "panic"
        /\ accessed \subseteq FileCoords
        /\ \A a \in accessed : a[1] >= 0 /\ a[2] >= 0
        /\ accessed # {} =>
              accessed = {last} \cup ({Target(n) : n \in Neighbours} \cap FileCoords)
        /\ Cardinality(visited) <= file.width * file.height
        /\ pc = "dithering" =>
              /\ Cardinality(visited) = i - 1
              /\ i <= file.width * file.height + 1

(* Witness of C8: a step at the left edge with a row below, where the      *)
(* target (x-1, y+1) is skipped and the three others are updated.          *)
C8_Witness ==
    /\ DitherStepped
    /\ last[1] = 0 /\ last[2] + 1 < file.height /\ file.width >= 2
    /\ accessed = {last, <<1, last[2]>>, <<0, last[2] + 1>>, <<1, last[2] + 1>>}

(* The coordinates that precede position k (1-based) in row-major order.   *)
RowMajorBefore(k) ==
    {c \in FileCoords : c[2] * file.width + c[1] < k - 1}

(* C9: the dithering sweep visits the pixels in row-major order, a step    *)
(* adds its error only to pixels not yet visited, a visited pixel is black *)
(* or white and is never modified again, and at the end of the sweep every *)
(* pixel is black or white.                                                *)
C9_DitherSweepOrder ==
    (mode = "dithering" /\ pc \in {"dithering", "save", "done", "failed"}) =>
        /\ visited = RowMajorBefore(i)
        /\ accessed # {} =>
              /\ last[2] * file.width + last[1] = i - 2
              /\ (accessed \ {last}) \cap visited = {}
              /\ \A c \in visited \ {last} : img.px[c] = prev.px[c]
        /\ \A c \in visited : BlackOrWhite(img.px[c])
        /\ result = "ok" => \A c \in FileCoords : BlackOrWhite(img.px[c])

(* Witness of C9: the sweep ended on a raster of several rows and columns  *)
(* whose input had a pixel that is neither black nor white, with both      *)
(* colours in the output.                                                  *)
C9_Witness ==
    /\ Returned("dithering")
    /\ file.width >= 3 /\ file.height >= 2
    /\ visited = FileCoords
    /\ \E c \in FileCoords : ~BlackOrWhite(file.px[c])
    /\ \E c \in FileCoords : img.px[c] = BLACK
    /\ \E c \in FileCoords : img.px[c] = WHITE

RECURSIVE SumWeights(_)
SumWeights(targets) ==
    IF targets = <<>> THEN 0 ELSE Head(targets)[2] + SumWeights(Tail(targets))

(* C10: a dithering step at (x,y) on value P writes white when             *)
(* (P.r+P.g+P.b)/3 > 128 and black otherwise, adds error*7/16 to (x+1,y),  *)
(* error*3/16 to (x-1,y+1), error*5/16 to (x,y+1) and error*1/16 to        *)
(* (x+1,y+1) where in bounds, storing the sum truncated when it lies in    *)
(* [0,255], hands out 16/16 of the error when all four neighbours are in   *)
(* bounds, and leaves every other pixel unchanged.                         *)
C10_DitherStepEffect ==
    DitherStepped =>
        LET P == prev.px[last]
        IN  /\ img.px[last] = IF P[1] + P[2] + P[3] > 3 * 128 THEN WHITE ELSE BLACK
            /\ \A n \in Neighbours : Target(n) \in FileCoords =>
                  \A ch \in Channels : ~OutOfByte(Sum16(n, ch)) =>
                      img.px[Target(n)][ch] = Sum16(n, ch) \div 16
            /\ (\A n \in Neighbours : Target(n) \in FileCoords) =>
                  SumWeights(DiffusionTargets(last[1], last[2], width, height)) = 16
            /\ \A c \in FileCoords \ ({last} \cup {Target(n) : n \in Neighbours}) :
                  img.px[c] = prev.px[c]

(* Witness of C10: a step with all four neighbours in bounds, a non-zero   *)
(* error, every neighbour changed and a pixel outside the neighbourhood.   *)
C10_Witness ==
    /\ DitherStepped
    /\ \A n \in Neighbours : Target(n) \in FileCoords
    /\ \A n \in Neighbours : img.px[Target(n)] # prev.px[Target(n)]
    /\ prev.px[last] # img.px[last]
    /\ FileCoords \ ({last} \cup {Target(n) : n \in Neighbours}) # {}

====
